---- MODULE Spec2Model ----
(***************************************************************************)
(* A model of torchdynamo/variables/nn_module.py: the two representations  *)
(* of a torch.nn.Module during symbolic tracing (NNModuleVariable, which   *)
(* specializes on the module's identity, and                               *)
(* UnspecializedNNModuleVariable), their attribute, call and method        *)
(* interception, the guards they create and the GenerationTracker tag that *)
(* moves a module from the first representation to the second.             *)
(*                                                                         *)
(* Strings that the code takes apart (attribute and parameter names) are   *)
(* sequences of one-character strings; method names, which the code only   *)
(* compares, are TLA+ strings.                                             *)
(***************************************************************************)
EXTENDS Integers, Sequences, FiniteSets, TLC

VARIABLES
    tagged,     \* GenerationTracker: the identities tagged "must unspecialize"
    handle,     \* the handle (Variable) the trace currently holds for a module
    restart,    \* RestartAnalysis has been raised and not yet caught
    guards,     \* the guards accumulated by the trace: guard -> times stored
    last        \* the last interception: its inputs and what it produced

vars == <<tagged, handle, restart, guards, last>>

----------------------------------------------------------------------------
(* Bounds of the model.                                                    *)

NumObjs == 3
MaxLen == 5
MaxArgs == 2
MaxKwargs == 1
SliceRange == 3
MaxStep == 2
MaxNameLen == 7
MaxMro == 2

Objs == 1..NumObjs

----------------------------------------------------------------------------
(* Names, keys and provenance (Source).                                    *)

\* A key or name part: an integer index, a name (a character sequence) or
\* the registry key (module_key) of the module with identity o.
IntAtom(i) == [t |-> "int", s |-> <<>>, i |-> i]
StrAtom(s) == [t |-> "str", s |-> s, i |-> 0]
KeyAtom(o) == [t |-> "key", s |-> <<>>, i |-> o]

\* The root of a provenance chain: a local of the traced frame.
LocalSource(o) == << [t |-> "local", a |-> IntAtom(o)] >>
AttrSource(base, name) == Append(base, [t |-> "attr", a |-> StrAtom(name)])
GetItemSource(base, atom) == Append(base, [t |-> "item", a |-> atom])
NNModuleSource(inner) == Append(inner, [t |-> "nn", a |-> IntAtom(0)])
NotNNModuleSource(inner) == Append(inner, [t |-> "notnn", a |-> IntAtom(0)])

\* Source.is_nn_module(): the outermost NNModuleSource / NotNNModuleSource
\* wrapper of the chain is an NNModuleSource.
RECURSIVE IsNNModule(_)
IsNNModule(src) ==
    IF src = <<>> THEN FALSE
    ELSE LET top == src[Len(src)]
         IN IF top.t = "nn" THEN TRUE
            ELSE IF top.t = "notnn" THEN FALSE
            ELSE IsNNModule(SubSeq(src, 1, Len(src) - 1))

\* source.create_guard(kind)
Guard(src, kind) == [source |-> src, kind |-> kind]

NoGuards == [g \in {} |-> 0]

\* The guard collection as a list would keep it: every insertion is stored.
GuardBagAdd(gs, g) ==
    IF g \in DOMAIN gs THEN [gs EXCEPT ![g] = @ + 1]
    ELSE [x \in DOMAIN gs \cup {g} |-> IF x = g THEN 1 ELSE gs[x]]

\* set.add / Variable.add_guard on the guard set: a guard equal to a stored
\* one (same provenance, same kind) is not stored again.
GuardSetAdd(gs, g) ==
    IF g \in DOMAIN gs THEN gs
    ELSE [x \in DOMAIN gs \cup {g} |-> IF x = g THEN 1 ELSE gs[x]]

RECURSIVE AddGuards(_, _)
AddGuards(gs, new) ==
    IF new = <<>> THEN gs
    ELSE AddGuards(GuardSetAdd(gs, new[1]), Tail(new))

----------------------------------------------------------------------------
(* Values of the tracer, live objects and handles.                         *)

NoneInt == [none |-> TRUE, v |-> 0]
SomeInt(v) == [none |-> FALSE, v |-> v]

\* A Variable passed as an argument. chain lists, for a traced tensor, the
\* modules it has been passed through, first to last.
ConstInt(i) ==
    [const |-> TRUE, kind |-> "int", i |-> i, s |-> <<>>,
     start |-> NoneInt, stop |-> NoneInt, step |-> NoneInt, chain |-> <<>>]
ConstBool(b) ==
    [const |-> TRUE, kind |-> "bool", i |-> IF b THEN 1 ELSE 0, s |-> <<>>,
     start |-> NoneInt, stop |-> NoneInt, step |-> NoneInt, chain |-> <<>>]
ConstStr(s) ==
    [const |-> TRUE, kind |-> "str", i |-> 0, s |-> s,
     start |-> NoneInt, stop |-> NoneInt, step |-> NoneInt, chain |-> <<>>]
SliceVariable(start, stop, step) ==
    [const |-> TRUE, kind |-> "slice", i |-> 0, s |-> <<>>,
     start |-> start, stop |-> stop, step |-> step, chain |-> <<>>]
TensorArg(i) ==
    [const |-> FALSE, kind |-> "tensor", i |-> i, s |-> <<>>,
     start |-> NoneInt, stop |-> NoneInt, step |-> NoneInt, chain |-> <<>>]

\* A member of a live module: a child module or a tensor (parameter, buffer).
Module(id) == [what |-> "module", id |-> id]
Tensor(id) == [what |-> "tensor", id |-> id]

Digits == <<"0", "1", "2", "3", "4", "5", "6", "7", "8", "9">>
IsDigit(c) == \E d \in 1..Len(Digits) : Digits[d] = c

\* The name torch gives the element at position i (from 0) of a list-like
\* container: str(i).
IndexName(i) == IF i < 10 THEN <<Digits[i + 1]>> ELSE <<Digits[(i \div 10) + 1], Digits[(i % 10) + 1]>>

\* The live object a handle stands for, as fetched from the registry:
\*   cls     "Sequential" (forward is Sequential.forward), "SequentialSub"
\*           (a subclass overriding forward), "ModuleList", "ParameterList",
\*           "ModuleDict" or "Module" (any other class)
\*   allowed is_allowed(mod.__class__);  lazy  is_lazy_module(mod)
\*   elems   the container's elements, in order, each [name, sub]
\*   named   what named_parameters() / named_modules() yield for the bound
\*           options, each [name, sub]
\*   inline_dim  _check_input_dim is defined in a file torch inlining allows
LiveObject(cls, allowed, lazy, elems, named, inline_dim) ==
    [cls |-> cls, allowed |-> allowed, lazy |-> lazy, elems |-> elems,
     named |-> named, inline_dim |-> inline_dim]

\* A list-like container whose elements are the modules ids, in order.
ListOf(cls, ids) ==
    LiveObject(cls, FALSE, FALSE,
               [k \in 1..Len(ids) |-> [name |-> IndexName(k - 1), sub |-> Module(ids[k])]],
               <<>>, FALSE)

NoHandle == [kind |-> "none", obj |-> 0, key |-> <<>>, source |-> <<>>, module_type |-> ""]

\* NNModuleVariable.__init__: the handle keeps the class and the registry
\* key, not the object, and needs a source.
NNModuleVariable(module_type, obj, module_key, source) ==
    IF source = <<>> THEN NoHandle
    ELSE [kind |-> "nn", obj |-> obj, key |-> module_key, source |-> source,
          module_type |-> module_type]

\* UnspecializedNNModuleVariable.__init__: a source that is nn-module tracked
\* is rewrapped as NotNNModuleSource.
UnspecializedNNModuleVariable(obj, source) ==
    [kind |-> "unspec", obj |-> obj, key |-> <<>>,
     source |-> IF source # <<>> /\ IsNNModule(source)
                THEN NotNNModuleSource(source) ELSE source,
     module_type |-> "type"]

\* tx.output.add_submodule(mod, *names, source=...): the registry's handle
\* for mod under the key made of names. A module gets an identity-specialized
\* handle, a tensor a tensor value.
AddSubmodule(sub, names, source) ==
    IF sub.what = "module"
    THEN NNModuleVariable("type", sub.id, names, source)
    ELSE [kind |-> "tensor", obj |-> sub.id, key |-> names, source |-> source,
          module_type |-> ""]

\* vars.build(tx, source)(value): the value builder. A module tagged in the
\* GenerationTracker is built unspecialized, any other registered by identity.
Build(source, sub, names) ==
    IF sub.what = "module" /\ sub.id \in tagged
    THEN UnspecializedNNModuleVariable(sub.id, source)
    ELSE IF sub.what = "module" THEN AddSubmodule(sub, names, source)
    ELSE [kind |-> sub.what, obj |-> sub.id, key |-> <<>>, source |-> source,
          module_type |-> ""]

\* tx.call_function(fn, [arg], {}) followed by tx.pop(): the value the
\* intercepted call of the child handle fn leaves on the stack.
TxCall(fn, arg) == [arg EXCEPT !.chain = Append(@, fn.obj)]

\* What an interception produced.
\*   outcome     "return", or the exception / diagnostic that ended it
\*   value       the kind of value returned;  out  a returned constant or
\*               traced value
\*   items       the handles of a returned tuple / list iterator
\*   registered  the handles obtained from add_submodule, in order
\*   calls       the intercepted child calls, in order
\*   nodes       graph nodes emitted;  inlined  user functions inlined
\*   newguards   guards the returned value adds
\*   via         the table or lookup an attribute was resolved through
\*   module_type the handle's class after the call ("" when unchanged)
NoResult ==
    [outcome |-> "none", value |-> "", out |-> ConstInt(0), items |-> <<>>,
     registered |-> <<>>, calls |-> <<>>, nodes |-> <<>>, inlined |-> <<>>,
     newguards |-> <<>>, via |-> "", module_type |-> ""]
Raise(what) == [NoResult EXCEPT !.outcome = what]
Return(what) == [NoResult EXCEPT !.outcome = "return", !.value = what]

----------------------------------------------------------------------------
(* Python semantics the handlers rely on.                                  *)

Min(a, b) == IF a < b THEN a ELSE b
Max(a, b) == IF a > b THEN a ELSE b

\* slice.indices(n): the adjusted start of list(range(n))[start:stop:step].
SliceStart(sl, n) ==
    LET step == IF sl.step.none THEN 1 ELSE sl.step.v
    IN IF sl.start.none THEN (IF step < 0 THEN n - 1 ELSE 0)
       ELSE IF sl.start.v < 0
            THEN (IF sl.start.v + n < 0 THEN (IF step < 0 THEN -1 ELSE 0)
                  ELSE sl.start.v + n)
            ELSE (IF sl.start.v >= n THEN (IF step < 0 THEN n - 1 ELSE n)
                  ELSE sl.start.v)

SliceStop(sl, n) ==
    LET step == IF sl.step.none THEN 1 ELSE sl.step.v
    IN IF sl.stop.none THEN (IF step < 0 THEN -1 ELSE n)
       ELSE IF sl.stop.v < 0
            THEN (IF sl.stop.v + n < 0 THEN (IF step < 0 THEN -1 ELSE 0)
                  ELSE sl.stop.v + n)
            ELSE (IF sl.stop.v >= n THEN (IF step < 0 THEN n - 1 ELSE n)
                  ELSE sl.stop.v)

SliceLength(sl, n) ==
    LET step == IF sl.step.none THEN 1 ELSE sl.step.v
        lo == SliceStart(sl, n)
        hi == SliceStop(sl, n)
    IN IF step > 0
       THEN (IF lo < hi THEN ((hi - lo - 1) \div step) + 1 ELSE 0)
       ELSE (IF hi < lo THEN ((lo - hi - 1) \div (0 - step)) + 1 ELSE 0)

\* list(range(n))[sl]: the positions (from 0) the slice selects, in order.
\* A step of 0 is a ValueError, which the callers test first.
PySliceKeys(sl, n) ==
    LET step == IF sl.step.none THEN 1 ELSE sl.step.v
    IN [j \in 1..SliceLength(sl, n) |-> SliceStart(sl, n) + (j - 1) * step]

\* seq[sl] for a Python list held as a sequence (positions from 1).
PySliceOf(seq, sl) ==
    LET ks == PySliceKeys(sl, Len(seq))
    IN [j \in 1..Len(ks) |-> seq[ks[j] + 1]]

\* re.sub(r"[.]([0-9]+)([.]|$)", r"[\1]\2", name): matches are found left to
\* right and do not overlap; the scan resumes after the text a match took,
\* the closing dot included.
RECURSIVE DigitRun(_, _)
DigitRun(s, i) ==
    IF i <= Len(s) /\ IsDigit(s[i]) THEN 1 + DigitRun(s, i + 1) ELSE 0

RECURSIVE ReSubFrom(_, _)
ReSubFrom(s, i) ==
    IF i > Len(s) THEN <<>>
    ELSE LET d == IF s[i] = "." THEN DigitRun(s, i + 1) ELSE 0
             e == i + d + 1
             matched == d > 0 /\ (e > Len(s) \/ s[e] = ".")
         IN IF matched
            THEN <<"[">> \o SubSeq(s, i + 1, i + d) \o <<"]">>
                 \o (IF e <= Len(s) THEN <<".">> ELSE <<>>)
                 \o ReSubFrom(s, e + 1)
            ELSE <<s[i]>> \o ReSubFrom(s, i + 1)

RewriteName(name) == ReSubFrom(name, 1)

----------------------------------------------------------------------------
(* NNModuleVariable: the identity-specialized handle.                      *)

ListLike == {"ModuleList", "ParameterList", "Sequential", "SequentialSub"}

\* The handle add_submodule gives for the element at position idx (from 0).
IndexedChild(h, mod, idx) ==
    AddSubmodule(mod.elems[idx + 1].sub,
                 Append(h.key, IntAtom(idx)),
                 NNModuleSource(GetItemSource(h.source, IntAtom(idx))))

\* NNModuleVariable.unpack_var_sequence
unpack_var_sequence(h, mod) ==
    IF mod.cls \notin ListLike THEN Raise("AssertionError")
    ELSE LET hs == [k \in 1..Len(mod.elems) |-> IndexedChild(h, mod, k - 1)]
         IN [Return("list") EXCEPT !.items = hs, !.registered = hs]

\* NNModuleVariable.call_hasattr
call_hasattr(h, name, present) ==
    [Return("constant") EXCEPT
        !.out = ConstBool(present),
        !.newguards = << Guard(NNModuleSource(AttrSource(h.source, name)), "HASATTR") >>]

\* NNModuleVariable.convert_to_unspecialized: GenerationTracker.tag(mod); the
\* value is the tracker afterwards. RestartAnalysis is raised by the caller.
convert_to_unspecialized(h) == tagged \cup {h.obj}

ClassAttr == <<"_", "_", "c", "l", "a", "s", "s", "_", "_">>

\* The names object itself declares, among those the model looks up.
ObjectAttributeNames == {ClassAttr}

\* What var_getattr reads of the live object for one name:
\*   in_dict, in_modules, in_parameters, in_buffers: the name is a key of
\*     __dict__, _modules, _parameters, _buffers
\*   mro: for each user class of inspect.getmro(cls), most derived first, the
\*     kind of attribute it declares under the name, or "absent"
\*   child: the module _modules holds under the name
\* all_class_attribute_names: the union of the class dicts along the MRO.
InAllClassAttributeNames(view, name) ==
    \/ \E k \in 1..Len(view.mro) : view.mro[k] # "absent"
    \/ name \in ObjectAttributeNames

\* inspect.getattr_static(base, name) for a name that is no instance slot:
\* the first declaration along the MRO, object last.
GetattrStatic(view, name) ==
    IF \E k \in 1..Len(view.mro) : view.mro[k] # "absent"
    THEN view.mro[CHOOSE k \in 1..Len(view.mro) :
                    /\ view.mro[k] # "absent"
                    /\ \A j \in 1..(k - 1) : view.mro[j] = "absent"]
    ELSE IF name \in ObjectAttributeNames THEN "other"
    ELSE "missing"

\* The lookup order without the test against all_class_attribute_names.
ResolveViaUnshadowed(view, name) ==
    IF view.in_dict THEN "dict"
    ELSE IF view.in_modules THEN "modules"
    ELSE IF view.in_parameters THEN "parameters"
    ELSE IF view.in_buffers THEN "buffers"
    ELSE "class"

\* The table var_getattr resolves the name through (lines 105-115).
ResolveVia(view, name) ==
    IF view.in_dict THEN "dict"
    ELSE IF view.in_modules /\ ~InAllClassAttributeNames(view, name) THEN "modules"
    ELSE IF view.in_parameters THEN "parameters"
    ELSE IF view.in_buffers THEN "buffers"
    ELSE "class"

\* NNModuleVariable.var_getattr
var_getattr(h, view, name) ==
    LET source == AttrSource(h.source, name)
        via == ResolveVia(view, name)
        subobj == IF via = "modules" THEN Module(view.child)
                  ELSE IF via = "dict" THEN [what |-> "data", id |-> 0]
                  ELSE Tensor(0)
        member == IF via = "class" THEN GetattrStatic(view, name) ELSE "object"
    IN IF member = "missing" THEN [Raise("AttributeError") EXCEPT !.via = via]
       ELSE IF name = ClassAttr /\ via = "class"
       THEN [Return("UserDefinedClassVariable") EXCEPT !.via = via]
       ELSE IF via # "class"
       THEN LET b == Build(NNModuleSource(source), subobj, Append(h.key, StrAtom(name)))
            IN [Return("build") EXCEPT
                   !.via = via, !.items = <<b>>,
                   !.registered = IF b.kind = "nn" THEN <<b>> ELSE <<>>]
       ELSE IF member = "property"
       THEN [Return("property") EXCEPT
                !.via = via,
                !.inlined = << [fn |-> "fget", receiver |-> h.obj, nargs |-> 1, nkw |-> 0] >>]
       ELSE IF member = "classmethod"
       THEN [Return("usermethod_of_class") EXCEPT !.via = via]
       ELSE IF member = "staticmethod"
       THEN [Return("userfunc") EXCEPT !.via = via]
       ELSE IF member = "function"
       THEN [Return("usermethod_of_self") EXCEPT !.via = via]
       ELSE [Raise("unimplemented_class_property") EXCEPT !.via = via]

\* The unrolling without "arg = tx.pop()": every child is called on the
\* argument of the container.
RECURSIVE UnrollFromStale(_, _, _, _)
UnrollFromStale(h, mod, idx, st) ==
    IF idx >= Len(mod.elems) THEN st
    ELSE LET child == IndexedChild(h, mod, idx)
             first == IF st.calls = <<>> THEN st.arg ELSE st.calls[1].arg
         IN UnrollFromStale(h, mod, idx + 1,
                [arg |-> TxCall(child, first),
                 calls |-> Append(st.calls, [fn |-> child, arg |-> first]),
                 registered |-> Append(st.registered, child)])

\* The unrolled Sequential (lines 156-169): each child is registered, called
\* on the running argument, and its result popped as the next argument.
RECURSIVE UnrollFrom(_, _, _, _)
UnrollFrom(h, mod, idx, st) ==
    IF idx >= Len(mod.elems) THEN st
    ELSE LET child == IndexedChild(h, mod, idx)
         IN UnrollFrom(h, mod, idx + 1,
                [arg |-> TxCall(child, st.arg),
                 calls |-> Append(st.calls, [fn |-> child, arg |-> st.arg]),
                 registered |-> Append(st.registered, child)])

\* call_function without "assert not kwargs": keyword arguments are dropped
\* and the container is unrolled.
call_function_unchecked(h, mod, args, kwargs) ==
    IF mod.cls = "Sequential"
    THEN IF Len(args) # 1 THEN Raise("ValueError")
         ELSE LET st == UnrollFrom(h, mod, 0,
                            [arg |-> args[1], calls |-> <<>>, registered |-> <<>>])
              IN [Return("value") EXCEPT
                     !.out = st.arg, !.calls = st.calls, !.registered = st.registered]
    ELSE IF mod.allowed
    THEN [Return("tensor") EXCEPT
             !.nodes = << [op |-> "call_module", target |-> h.key,
                           nargs |-> Len(args), nkw |-> Len(kwargs)] >>,
             !.module_type = IF mod.lazy THEN "cls_to_become" ELSE ""]
    ELSE [Return("inlined") EXCEPT
             !.inlined = << [fn |-> IF mod.lazy THEN "__call__" ELSE "forward",
                             receiver |-> h.obj,
                             nargs |-> Len(args) + 1, nkw |-> Len(kwargs)] >>]

\* NNModuleVariable.call_function
call_function(h, mod, args, kwargs) ==
    IF mod.cls = "Sequential"
    THEN IF kwargs # <<>> THEN Raise("AssertionError")
         ELSE IF Len(args) # 1 THEN Raise("ValueError")
         ELSE LET st == UnrollFrom(h, mod, 0,
                            [arg |-> args[1], calls |-> <<>>, registered |-> <<>>])
              IN [Return("value") EXCEPT
                     !.out = st.arg, !.calls = st.calls, !.registered = st.registered]
    ELSE IF mod.allowed
    THEN [Return("tensor") EXCEPT
             !.nodes = << [op |-> "call_module", target |-> h.key,
                           nargs |-> Len(args), nkw |-> Len(kwargs)] >>,
             !.module_type = IF mod.lazy THEN "cls_to_become" ELSE ""]
    ELSE [Return("inlined") EXCEPT
             !.inlined = << [fn |-> IF mod.lazy THEN "__call__" ELSE "forward",
                             receiver |-> h.obj,
                             nargs |-> Len(args) + 1, nkw |-> Len(kwargs)] >>]

\* The gate over the positional arguments only.
AllConstantPositional(args, kwargs) ==
    \A k \in 1..Len(args) : args[k].const

\* all(x.is_python_constant() for x in itertools.chain(args, kwargs.values()))
AllConstant(args, kwargs) ==
    /\ \A k \in 1..Len(args) : args[k].const
    /\ \A k \in 1..Len(kwargs) : kwargs[k].const

\* get_kwargs(*names): inspect.signature(fn).bind(*args, **kwargs) fails when
\* more arguments are given than fn has parameters. The keywords given are
\* taken to name parameters not already bound by position.
BindFails(arity, args, kwargs) == Len(args) + Len(kwargs) > arity

ArgAtom(a) == IF a.kind = "str" THEN StrAtom(a.s) ELSE IntAtom(a.i)

\* wrap_values(items, getsource): dotted numeric name segments are rewritten,
\* then each item is registered under (module_key, name).
wrap_values(h, items, getsource) ==
    LET child(k) ==
            LET name == RewriteName(items[k].name)
            IN AddSubmodule(items[k].sub,
                   Append(h.key, StrAtom(name)),
                   NNModuleSource(IF getsource = "AttrSource"
                                  THEN AttrSource(h.source, name)
                                  ELSE GetItemSource(h.source, StrAtom(name))))
        hs == [k \in 1..Len(items) |-> child(k)]
    IN [Return("listiter") EXCEPT !.items = hs, !.registered = hs]

\* [named_embed(name, obj) for name, obj in items]
named_embed_all(h, items) ==
    LET hs == [k \in 1..Len(items) |->
                  AddSubmodule(items[k].sub,
                      Append(h.key, StrAtom(items[k].name)),
                      NNModuleSource(GetItemSource(h.source, StrAtom(items[k].name))))]
    IN [Return("listiter_of_pairs") EXCEPT !.items = hs, !.registered = hs]

\* The slice branch with the position in the result (idx) as the key.
getitem_slice_by_position(h, mod, sl) ==
    IF (~sl.step.none) /\ sl.step.v = 0 THEN Raise("ValueError")
    ELSE IF mod.cls = "ModuleDict" THEN Raise("TypeError")
    ELSE LET picked == PySliceOf(mod.elems, sl)
             hs == [idx \in 1..Len(picked) |->
                       AddSubmodule(picked[idx].sub,
                           << IntAtom(idx - 1) >>,
                           NNModuleSource(GetItemSource(h.source, IntAtom(idx - 1))))]
         IN [Return("tuple") EXCEPT !.items = hs, !.registered = hs]

\* The slice branch of __getitem__ (lines 315-332).
getitem_slice(h, mod, sl) ==
    IF (~sl.step.none) /\ sl.step.v = 0 THEN Raise("ValueError")
    ELSE IF mod.cls = "ModuleDict" THEN Raise("TypeError")
    ELSE LET keys == PySliceKeys(sl, Len(mod.elems))
             picked == PySliceOf(mod.elems, sl)
             hs == [idx \in 1..Len(picked) |->
                       AddSubmodule(picked[idx].sub,
                           << IntAtom(keys[idx]) >>,
                           NNModuleSource(GetItemSource(h.source, IntAtom(keys[idx]))))]
         IN [Return("tuple") EXCEPT !.items = hs, !.registered = hs]

\* module[key] for a key that is no slice: the position (from 1) of the
\* element, or the exception raised.
Lookup(mod, a) ==
    IF mod.cls = "ModuleDict"
    THEN IF a.kind = "str" /\ \E k \in 1..Len(mod.elems) : mod.elems[k].name = a.s
         THEN [err |-> "", pos |-> CHOOSE k \in 1..Len(mod.elems) : mod.elems[k].name = a.s]
         ELSE [err |-> "KeyError", pos |-> 0]
    ELSE IF a.kind # "int" THEN [err |-> "TypeError", pos |-> 0]
    ELSE IF a.i < 0 - Len(mod.elems) \/ a.i >= Len(mod.elems)
         THEN [err |-> "IndexError", pos |-> 0]
    ELSE [err |-> "", pos |-> (IF a.i < 0 THEN a.i + Len(mod.elems) ELSE a.i) + 1]

\* The single-key branch of __getitem__ (lines 334-342).
getitem_key(h, mod, a) ==
    LET found == Lookup(mod, a)
    IN IF found.err # "" THEN Raise(found.err)
       ELSE LET c == AddSubmodule(mod.elems[found.pos].sub,
                         << ArgAtom(a), ArgAtom(a) >>,
                         NNModuleSource(GetItemSource(h.source, ArgAtom(a))))
            IN [Return("handle") EXCEPT !.items = <<c>>, !.registered = <<c>>]

\* The methods after the constant-argument gate (lines 266-352).
call_method_constant(h, mod, name, args, kwargs) ==
    IF name = "children"
    THEN IF args # <<>> \/ kwargs # <<>> THEN Raise("AssertionError")
         ELSE wrap_values(h, mod.elems, "AttrSource")
    ELSE IF name = "named_parameters"
    THEN IF BindFails(2, args, kwargs) THEN Raise("TypeError")
         ELSE named_embed_all(h, mod.named)
    ELSE IF name = "named_modules"
    THEN IF BindFails(3, args, kwargs) THEN Raise("TypeError")
         ELSE named_embed_all(h, mod.named)
    ELSE IF name = "parameters"
    THEN IF BindFails(1, args, kwargs) THEN Raise("TypeError")
         ELSE wrap_values(h, mod.named, "AttrSource")
    ELSE IF name = "values"
    THEN IF args # <<>> \/ kwargs # <<>> THEN Raise("AssertionError")
         ELSE IF mod.cls # "ModuleDict" THEN Raise("AttributeError")
         ELSE wrap_values(h, mod.elems, "GetItemSource")
    ELSE IF name = "items"
    THEN IF args # <<>> \/ kwargs # <<>> THEN Raise("AssertionError")
         ELSE IF mod.cls # "ModuleDict" THEN Raise("AttributeError")
         ELSE named_embed_all(h, mod.elems)
    ELSE IF name = "__len__"
    THEN IF args # <<>> \/ kwargs # <<>> THEN Raise("AssertionError")
         ELSE IF mod.cls \notin ListLike \cup {"ModuleDict"} THEN Raise("TypeError")
         ELSE [Return("constant") EXCEPT !.out = ConstInt(Len(mod.elems))]
    ELSE IF name = "__contains__" /\ mod.cls = "ModuleDict" /\ args # <<>> /\ args[1].const
    THEN [Return("constant") EXCEPT
             !.out = ConstBool(/\ args[1].kind = "str"
                               /\ \E k \in 1..Len(mod.elems) : mod.elems[k].name = args[1].s)]
    ELSE IF name = "__getitem__"
    THEN IF kwargs # <<>> \/ Len(args) # 1 THEN Raise("AssertionError")
         ELSE IF mod.cls \notin {"ModuleDict", "ModuleList", "ParameterList"}
              THEN Raise("AssertionError")
         ELSE IF args[1].kind = "slice" THEN getitem_slice(h, mod, args[1])
         ELSE getitem_key(h, mod, args[1])
    ELSE IF name = "_get_abs_string_index"
    THEN IF kwargs # <<>> \/ Len(args) # 1 THEN Raise("AssertionError")
         ELSE IF mod.cls # "ModuleList" THEN Raise("AssertionError")
         ELSE LET found == Lookup(mod, args[1])
              IN IF found.err # "" THEN Raise(found.err)
                 ELSE [Return("constant") EXCEPT !.out = ConstStr(IndexName(found.pos - 1))]
    ELSE Return("super_call_method")

\* NNModuleVariable.call_method
call_method(h, mod, name, args, kwargs) ==
    IF name = "forward" THEN call_function(h, mod, args, kwargs)
    ELSE IF name = "_check_input_dim" /\ mod.inline_dim
    THEN [Return("constant") EXCEPT !.out = ConstBool(TRUE)]
    ELSE IF ~AllConstant(args, kwargs) THEN Raise("unimplemented_non_const")
    ELSE call_method_constant(h, mod, name, args, kwargs)

----------------------------------------------------------------------------
(* UnspecializedNNModuleVariable.                                          *)

\* What call_method reads of the object for the method name:
\*   in_dict  the name is a key of the instance's __dict__
\*   method   inspect.getattr_static(type(value), name): "missing" when it
\*            raises AttributeError (method = None), "parameters" for
\*            torch.nn.Module.parameters, "module_builtin" for another function
\*            of torch.nn.Module, "function" for any other function, "no_code"
\*            for an attribute without __code__ (property, classmethod, ...)
\*   named    self.value.named_parameters(), each [name, sub]
\* UnspecializedNNModuleVariable.call_method
unspec_call_method(h, view, args, kwargs) ==
    IF view.in_dict THEN Return("super_call_method")
    ELSE IF view.method = "parameters"
    THEN IF ~(args = <<>> \/ kwargs # <<>>) THEN Raise("AssertionError")
         ELSE LET hs == [k \in 1..Len(view.named) |->
                            Build(AttrSource(h.source, view.named[k].name),
                                  view.named[k].sub, <<>>)]
              IN [Return("listiter") EXCEPT
                     !.items = hs,
                     !.newguards = << Guard(h.source, "NN_MODULE_PARAM_NAMES") >>]
    ELSE IF view.method \in {"missing", "no_code"} THEN Raise("AttributeError")
    ELSE IF view.method = "module_builtin" THEN Raise("unimplemented_missing")
    ELSE Return("super_call_method")

----------------------------------------------------------------------------
(* The inputs the interceptions are run on.                                *)

RECURSIVE SeqsUpTo(_, _)
SeqsUpTo(S, n) ==
    IF n = 0 THEN {<<>>}
    ELSE LET shorter == SeqsUpTo(S, n - 1)
         IN shorter \cup {Append(s, x) : s \in {t \in shorter : Len(t) = n - 1}, x \in S}

RootSource(o) == NNModuleSource(LocalSource(o))

\* The identity-specialized handle of the frame's local module o.
RootNN(o) == AddSubmodule(Module(o), <<KeyAtom(o)>>, RootSource(o))

\* The handle the value builder gives the frame's local module o.
RootHandle(o) == Build(RootSource(o), Module(o), <<KeyAtom(o)>>)

AttrNames == {<<"x">>, <<"y">>}

\* Positional and keyword arguments: traced tensors and constants.
ArgLists == SeqsUpTo({TensorArg(1), ConstInt(0)}, MaxArgs)
KwargLists == SeqsUpTo({TensorArg(2), ConstInt(1)}, MaxKwargs)

\* The container whose n elements are the modules 1..n.
ContainerOf(cls, n) == ListOf(cls, [k \in 1..n |-> k])

\* A ModuleDict holding the modules 1..n under the keys "a", "b", ...
Letters == <<"a", "b", "c", "d", "e", "f", "g", "h">>
DictOf(n) ==
    LiveObject("ModuleDict", FALSE, FALSE,
               [k \in 1..n |-> [name |-> <<Letters[k]>>, sub |-> Module(k)]],
               <<>>, FALSE)

CallMods ==
    {[ContainerOf(cls, n) EXCEPT !.allowed = a, !.lazy = l] :
        cls \in {"Sequential", "SequentialSub", "Module"},
        n \in 0..MaxLen, a \in BOOLEAN, l \in BOOLEAN}

MethodNames ==
    {"forward", "_check_input_dim", "children", "named_parameters",
     "named_modules", "parameters", "values", "items", "__len__",
     "__contains__", "__getitem__", "_get_abs_string_index", "extra_repr"}

MethodMods ==
    {ContainerOf("ModuleList", 2), ContainerOf("Sequential", 2), DictOf(2)}
    \cup {[ContainerOf("Module", 1) EXCEPT
              !.inline_dim = d,
              !.named = << [name |-> <<"w">>, sub |-> Tensor(1)] >>] : d \in BOOLEAN}

SliceBounds == {NoneInt} \cup {SomeInt(v) : v \in (0 - SliceRange)..SliceRange}
SliceSteps == {NoneInt} \cup {SomeInt(v) : v \in (0 - MaxStep)..MaxStep}
Slices == {SliceVariable(a, b, c) : a \in SliceBounds, b \in SliceBounds, c \in SliceSteps}

IndexKeys ==
    {ConstInt(i) : i \in (0 - MaxLen - 1)..MaxLen} \cup {ConstStr(<<Letters[k]>>) : k \in 1..3}

\* Dotted names as named_parameters() yields them: segments joined by ".",
\* no segment empty.
NameChars == {".", "0", "a"}
WellFormed(s) ==
    /\ Len(s) > 0
    /\ s[1] # "." /\ s[Len(s)] # "."
    /\ \A i \in 1..(Len(s) - 1) : ~(s[i] = "." /\ s[i + 1] = ".")
DottedNames == {s \in SeqsUpTo(NameChars, MaxNameLen) : WellFormed(s)}

\* Direct children have names without dots.
ChildNames == {s \in SeqsUpTo(NameChars \ {"."}, 2) : Len(s) > 0}

MroKinds == {"absent", "property", "classmethod", "staticmethod", "function", "other"}
Mros == {m \in SeqsUpTo(MroKinds, MaxMro) : Len(m) > 0}
AttrViews ==
    {[in_dict |-> d, in_modules |-> m, in_parameters |-> p, in_buffers |-> b,
      mro |-> mro, child |-> 1] :
        d \in BOOLEAN, m \in BOOLEAN, p \in BOOLEAN, b \in BOOLEAN, mro \in Mros}

UnspecViews ==
    {[in_dict |-> d, method |-> m, named |-> n] :
        d \in BOOLEAN,
        m \in {"missing", "parameters", "module_builtin", "function", "no_code"},
        n \in {<<>>, << [name |-> <<"w">>, sub |-> Tensor(1)] >>}}

\* The containers a traced frame indexes: ModuleLists of other modules.
TraceContainers(o) == {ListOf("ModuleList", ids) : ids \in SeqsUpTo(Objs \ {o}, 2)}

NoMod == LiveObject("Module", FALSE, FALSE, <<>>, <<>>, FALSE)
NoView == [in_dict |-> FALSE, in_modules |-> FALSE, in_parameters |-> FALSE,
           in_buffers |-> FALSE, mro |-> <<>>, child |-> 0,
           method |-> "", named |-> <<>>]

\* The record of an interception: the operation, what it was run on and
\* what it produced. had: the guard it adds was already stored before it.
Did(op, name, attr, mod, view, args, kwargs, res) ==
    [op |-> op, name |-> name, attr |-> attr, mod |-> mod, view |-> view, args |-> args,
     kwargs |-> kwargs, res |-> res,
     had |-> \E k \in 1..Len(res.newguards) : res.newguards[k] \in DOMAIN guards]

Nothing == [op |-> "init", name |-> "", attr |-> <<>>, mod |-> NoMod, view |-> NoView,
            args |-> <<>>, kwargs |-> <<>>, res |-> NoResult, had |-> FALSE]

WithView(v) == [NoView EXCEPT !.in_dict = v.in_dict, !.in_modules = v.in_modules,
                              !.in_parameters = v.in_parameters,
                              !.in_buffers = v.in_buffers, !.mro = v.mro,
                              !.child = v.child]
WithMethod(v) == [NoView EXCEPT !.in_dict = v.in_dict, !.method = v.method,
                                !.named = v.named]

\* The value returned carries its guards into the trace's guard set; a lazy
\* module's handle reports its new class.
Finish(rec) ==
    /\ last' = rec
    /\ guards' = AddGuards(guards, rec.res.newguards)
    /\ handle' = IF rec.res.module_type = "" THEN handle
                 ELSE [handle EXCEPT !.module_type = rec.res.module_type]
    /\ UNCHANGED <<tagged, restart>>

----------------------------------------------------------------------------
(* The trace of a frame that holds one module: references, the tag and the *)
(* restart.                                                                *)

Built(h) ==
    [Return("build") EXCEPT
        !.items = <<h>>, !.registered = IF h.kind = "nn" THEN <<h>> ELSE <<>>]

\* A trace (the first of a frame, or an unrelated one) starts and builds the
\* handle of the frame's module o.
StartTrace ==
    /\ ~restart
    /\ \E o \in Objs :
        /\ handle' = RootHandle(o)
        /\ last' = Did("reference", "", <<>>, NoMod, NoView, <<>>, <<>>, Built(RootHandle(o)))
    /\ guards' = NoGuards
    /\ UNCHANGED <<tagged, restart>>

\* The driver catches RestartAnalysis: what the attempt built is discarded
\* and the frame is traced again from the top.
RestartTrace ==
    /\ restart
    /\ restart' = FALSE
    /\ handle' = RootHandle(handle.obj)
    /\ last' = Did("reference", "", <<>>, NoMod, NoView, <<>>, <<>>, Built(RootHandle(handle.obj)))
    /\ guards' = NoGuards
    /\ UNCHANGED tagged

ConvertToUnspecialized ==
    /\ ~restart
    /\ handle.kind = "nn"
    /\ tagged' = convert_to_unspecialized(handle)
    /\ restart' = TRUE
    /\ last' = Did("convert_to_unspecialized", "", <<>>, NoMod, NoView, <<>>, <<>>,
                   Raise("RestartAnalysis"))
    /\ UNCHANGED <<handle, guards>>

CallHasattr ==
    /\ ~restart
    /\ handle.kind = "nn"
    /\ \E name \in AttrNames, present \in BOOLEAN :
        Finish(Did("call_hasattr", "", name, NoMod, NoView, <<>>, <<>>,
                   call_hasattr(handle, name, present)))

\* list(handle) on a container of other modules.
UnpackElements ==
    /\ ~restart
    /\ handle.kind = "nn"
    /\ \E mod \in TraceContainers(handle.obj) :
        Finish(Did("unpack_var_sequence", "__iter__", <<>>, mod, NoView, <<>>, <<>>,
                   unpack_var_sequence(handle, mod)))

\* handle[i] on a container of other modules.
IndexElement ==
    /\ ~restart
    /\ handle.kind = "nn"
    /\ \E mod \in TraceContainers(handle.obj), i \in 0..1 :
        Finish(Did("call_method", "__getitem__", <<>>, mod, NoView, <<ConstInt(i)>>, <<>>,
                   call_method(handle, mod, "__getitem__", <<ConstInt(i)>>, <<>>)))

\* handle.name where name is a registered child module.
GetChildAttr ==
    /\ ~restart
    /\ handle.kind = "nn"
    /\ \E c \in Objs \ {handle.obj}, name \in AttrNames :
        LET view == [in_dict |-> FALSE, in_modules |-> TRUE, in_parameters |-> FALSE,
                     in_buffers |-> FALSE, mro |-> <<"absent">>, child |-> c]
        IN Finish(Did("var_getattr", "", name, NoMod, WithView(view), <<>>, <<>>,
                      var_getattr(handle, view, name)))

UnspecCallMethod ==
    /\ ~restart
    /\ handle.kind = "unspec"
    /\ \E view \in UnspecViews, args \in SeqsUpTo({ConstInt(0)}, 1),
          kwargs \in SeqsUpTo({ConstInt(1)}, 1) :
        Finish(Did("unspec_call_method", "", <<>>, NoMod, WithMethod(view), args, kwargs,
                   unspec_call_method(handle, view, args, kwargs)))

Init ==
    /\ tagged = {}
    /\ handle = NoHandle
    /\ restart = FALSE
    /\ guards = NoGuards
    /\ last = Nothing

Next ==
    \/ StartTrace
    \/ RestartTrace
    \/ ConvertToUnspecialized
    \/ CallHasattr
    \/ UnpackElements
    \/ IndexElement
    \/ GetChildAttr
    \/ UnspecCallMethod

Spec == Init /\ [][Next]_vars

----------------------------------------------------------------------------
(* Call and method interception on an identity-specialized handle, over    *)
(* the live objects and arguments it can meet: one interception is run on  *)
(* the handle the trace starts with.                                       *)

Fresh == last.op = "init"

InitCalls ==
    /\ tagged = {}
    /\ handle \in {RootNN(o) : o \in Objs}
    /\ restart = FALSE
    /\ guards = NoGuards
    /\ last = Nothing

CallFunction ==
    /\ Fresh
    /\ \E mod \in CallMods, args \in ArgLists, kwargs \in KwargLists :
        Finish(Did("call_function", "__call__", <<>>, mod, NoView, args, kwargs,
                   call_function(handle, mod, args, kwargs)))

CallMethod ==
    /\ Fresh
    /\ \E name \in MethodNames, mod \in MethodMods, args \in ArgLists, kwargs \in KwargLists :
        Finish(Did("call_method", name, <<>>, mod, NoView, args, kwargs,
                   call_method(handle, mod, name, args, kwargs)))

GetItem ==
    /\ Fresh
    /\ \E n \in 0..MaxLen, key \in Slices \cup IndexKeys :
      \E mod \in {ContainerOf("ModuleList", n), DictOf(Min(n, 2))} :
        /\ key.kind = "slice" => mod.cls = "ModuleList"
        /\ Finish(Did("call_method", "__getitem__", <<>>, mod, NoView, <<key>>, <<>>,
                      call_method(handle, mod, "__getitem__", <<key>>, <<>>)))

UnpackVarSequence ==
    /\ Fresh
    /\ \E n \in 0..MaxLen, cls \in {"ModuleList", "Sequential", "ModuleDict"} :
        LET mod == IF cls = "ModuleDict" THEN DictOf(Min(n, 2)) ELSE ContainerOf(cls, n)
        IN Finish(Did("unpack_var_sequence", "__iter__", <<>>, mod, NoView, <<>>, <<>>,
                      unpack_var_sequence(handle, mod)))

\* parameters() on a module whose named_parameters() yields one dotted name.
Parameters ==
    /\ Fresh
    /\ \E name \in DottedNames :
        LET mod == [NoMod EXCEPT !.named = << [name |-> name, sub |-> Tensor(1)] >>]
        IN Finish(Did("call_method", "parameters", <<>>, mod, NoView, <<>>, <<>>,
                      call_method(handle, mod, "parameters", <<>>, <<>>)))

\* children() on a module with one or two direct children.
Children ==
    /\ Fresh
    /\ \E names \in {s \in SeqsUpTo(ChildNames, 2) : Len(s) > 0} :
        LET mod == [NoMod EXCEPT !.elems =
                       [k \in 1..Len(names) |-> [name |-> names[k], sub |-> Module(k)]]]
        IN Finish(Did("call_method", "children", <<>>, mod, NoView, <<>>, <<>>,
                      call_method(handle, mod, "children", <<>>, <<>>)))

NextCalls ==
    \/ CallFunction
    \/ CallMethod
    \/ GetItem
    \/ UnpackVarSequence
    \/ Parameters
    \/ Children

SpecCalls == InitCalls /\ [][NextCalls]_vars

----------------------------------------------------------------------------
(* Attribute resolution on an identity-specialized handle, over the        *)
(* instance tables and class hierarchies it can meet.                      *)

VarGetattr ==
    /\ Fresh
    /\ \E view \in AttrViews, name \in {<<"n">>, ClassAttr} :
        Finish(Did("var_getattr", "", name, NoMod, WithView(view), <<>>, <<>>,
                   var_getattr(handle, view, name)))

NextGetattr == VarGetattr

SpecGetattr == InitCalls /\ [][NextGetattr]_vars

----------------------------------------------------------------------------
(* Properties.                                                             *)

\* The provenance key of an element handle: the atom of its indexed step.
ItemKey(h) == h.source[Len(h.source) - 1].a

\* C1: once convert_to_unspecialized has tagged the identity I, every handle
\* built afterwards for an object with identity I, in the restarted trace or
\* in any other, is an unspecialized handle and never an
\* identity-specialized one.
C1_TaggedIsNeverSpecializedAgain ==
    last.op \in {"reference", "unpack_var_sequence", "call_method", "var_getattr"} =>
        \A k \in 1..Len(last.res.items) :
            last.res.items[k].obj \in tagged => last.res.items[k].kind # "nn"

\* What holds of C1: the tag is recorded with the restart signal, the
\* restarted trace builds the tagged module unspecialized, and so does an
\* attribute reference, which goes through the value builder.
C1_BuilderHonoursTag ==
    /\ restart => (last.op = "convert_to_unspecialized" /\ handle.obj \in tagged)
    /\ last.op \in {"reference", "var_getattr"} =>
          \A k \in 1..Len(last.res.items) :
              last.res.items[k].obj \in tagged => last.res.items[k].kind = "unspec"

\* C2 as claimed: a name that is a registered child and is declared on the
\* class or an ancestor resolves to the class-hierarchy attribute, whatever
\* the other instance tables hold.
C2_ShadowedChildResolvesToClassAttribute ==
    (/\ last.op = "var_getattr"
     /\ last.view.in_modules
     /\ InAllClassAttributeNames(last.view, last.attr))
    => last.res.via = "class"

\* C2 as amended: such a name never resolves through the child table; it
\* resolves to the instance slot, the parameter or the buffer of that name
\* when there is one (in that order), and otherwise to the first declaration
\* along the MRO, without registering the child.
C2_ShadowedChildNeverResolvesToChild ==
    (/\ last.op = "var_getattr"
     /\ last.view.in_modules
     /\ InAllClassAttributeNames(last.view, last.attr))
    => LET v == last.view
           r == last.res
           declared == {k \in 1..Len(v.mro) : v.mro[k] # "absent"}
           first == IF declared = {} THEN "other"
                    ELSE v.mro[CHOOSE k \in declared : \A j \in declared : k <= j]
       IN /\ r.via # "modules"
          /\ \A k \in 1..Len(r.items) : r.items[k].kind \notin {"nn", "unspec"}
          /\ v.in_dict => r.via = "dict"
          /\ (~v.in_dict /\ v.in_parameters) => r.via = "parameters"
          /\ (~v.in_dict /\ ~v.in_parameters /\ v.in_buffers) => r.via = "buffers"
          /\ (~v.in_dict /\ ~v.in_parameters /\ ~v.in_buffers) =>
                /\ r.via = "class"
                /\ r.registered = <<>>
                /\ last.attr = ClassAttr => r.value = "UserDefinedClassVariable"
                /\ last.attr # ClassAttr =>
                      \/ first = "property" /\ r.value = "property"
                      \/ first = "classmethod" /\ r.value = "usermethod_of_class"
                      \/ first = "staticmethod" /\ r.value = "userfunc"
                      \/ first = "function" /\ r.value = "usermethod_of_self"
                      \/ first = "other" /\ r.outcome = "unimplemented_class_property"

\* A child shadowed by a property that an ancestor declares.
C2_Witness ==
    /\ last.op = "var_getattr"
    /\ last.view.in_modules
    /\ ~last.view.in_dict /\ ~last.view.in_parameters /\ ~last.view.in_buffers
    /\ last.view.mro = <<"absent", "property">>
    /\ last.res.via = "class"
    /\ last.res.value = "property"

\* C3: calling a plain Sequential with children c0..c(k-1) on one argument
\* v0 makes exactly k intercepted child calls, in registered order, call i
\* on the result of call i-1 (v0 for the first), returns the last result
\* (v0 when k = 0) and emits no graph node for the container.
C3_SequentialIsUnrolled ==
    (/\ \/ last.op = "call_function"
        \/ last.op = "call_method" /\ last.name = "forward"
     /\ last.mod.cls = "Sequential"
     /\ Len(last.args) = 1
     /\ last.kwargs = <<>>)
    => LET r == last.res
           k == Len(last.mod.elems)
       IN /\ r.outcome = "return"
          /\ Len(r.calls) = k
          /\ \A i \in 1..k :
                /\ r.calls[i].fn.obj = last.mod.elems[i].sub.id
                /\ r.calls[i].arg = IF i = 1 THEN last.args[1]
                                    ELSE TxCall(r.calls[i - 1].fn, r.calls[i - 1].arg)
          /\ r.out = IF k = 0 THEN last.args[1]
                     ELSE TxCall(r.calls[k].fn, r.calls[k].arg)
          /\ r.nodes = <<>>
          /\ r.inlined = <<>>

\* [A, B, C] called on a traced tensor gives C(B(A(v0))).
C3_Witness ==
    /\ last.op = "call_function"
    /\ last.mod.cls = "Sequential"
    /\ Len(last.mod.elems) = 3
    /\ last.args = << TensorArg(1) >>
    /\ last.kwargs = <<>>
    /\ Len(last.res.calls) = 3
    /\ last.res.out = [TensorArg(1) EXCEPT !.chain = <<1, 2, 3>>]

\* The positions 0..n-1 that start:stop:step selects, by Python's rules: a
\* negative bound counts from the end, bounds are clamped to the list, and
\* every step-th position from the start is taken, up to the stop.
Selected(sl, n) ==
    LET step == IF sl.step.none THEN 1 ELSE sl.step.v
        rel(b) == IF b.v < 0 THEN b.v + n ELSE b.v
        from == IF sl.start.none THEN (IF step > 0 THEN 0 ELSE n - 1)
                ELSE IF step > 0 THEN Max(0, Min(n, rel(sl.start)))
                ELSE Max(0 - 1, Min(n - 1, rel(sl.start)))
        upto == IF sl.stop.none THEN (IF step > 0 THEN n ELSE 0 - 1)
                ELSE IF step > 0 THEN Max(0, Min(n, rel(sl.stop)))
                ELSE Max(0 - 1, Min(n - 1, rel(sl.stop)))
    IN IF step > 0
       THEN {p \in 0..(n - 1) : from <= p /\ p < upto /\ (p - from) % step = 0}
       ELSE {p \in 0..(n - 1) : upto < p /\ p <= from /\ (from - p) % (0 - step) = 0}

\* C4: __getitem__ with a constant slice on an ordered container of n
\* modules returns a tuple with one tracked child handle per selected
\* element, in selection order, the handle of the element at position p
\* having the provenance indexed(parent provenance, p).
C4_SliceSelectsPythonKeys ==
    (/\ last.op = "call_method"
     /\ last.name = "__getitem__"
     /\ last.mod.cls = "ModuleList"
     /\ Len(last.args) = 1
     /\ last.kwargs = <<>>
     /\ last.args[1].kind = "slice"
     /\ (last.args[1].step.none \/ last.args[1].step.v # 0))
    => LET r == last.res
           sl == last.args[1]
           n == Len(last.mod.elems)
           up == sl.step.none \/ sl.step.v > 0
       IN /\ r.outcome = "return"
          /\ r.value = "tuple"
          /\ Len(r.items) = Cardinality(Selected(sl, n))
          /\ \A j \in 1..Len(r.items) :
                /\ ItemKey(r.items[j]).t = "int"
                /\ ItemKey(r.items[j]).i \in Selected(sl, n)
                /\ r.items[j].obj = last.mod.elems[ItemKey(r.items[j]).i + 1].sub.id
                /\ r.items[j].source =
                      NNModuleSource(GetItemSource(handle.source, ItemKey(r.items[j])))
                /\ j > 1 => IF up THEN ItemKey(r.items[j - 1]).i < ItemKey(r.items[j]).i
                            ELSE ItemKey(r.items[j - 1]).i > ItemKey(r.items[j]).i

\* handle[1:3] on 5 elements: a 2-tuple with the keys 1 and 2.
C4_Witness ==
    /\ last.op = "call_method"
    /\ last.name = "__getitem__"
    /\ last.mod = ContainerOf("ModuleList", 5)
    /\ last.args = << SliceVariable(SomeInt(1), SomeInt(3), NoneInt) >>
    /\ last.res.value = "tuple"
    /\ Len(last.res.items) = 2
    /\ ItemKey(last.res.items[1]) = IntAtom(1)
    /\ ItemKey(last.res.items[2]) = IntAtom(2)

C7_MismatchFallsThrough ==
    (/\ last.op = "call_function"
     /\ last.mod.cls = "Sequential"
     /\ (last.kwargs # <<>> \/ Len(last.args) # 1))
    => /\ last.res.registered = <<>>
       /\ last.res.calls = <<>>
       /\ last.res.outcome = "return"
       /\ last.res.value \in {"tensor", "inlined"}

\* C7 as amended: such a call is not unrolled and does not go on to the
\* remaining cases; it ends with the failed assertion (a keyword argument)
\* or the failed unpacking (not one positional argument), with no child
\* registered or called, no node emitted and nothing inlined.
C7_MismatchAborts ==
    (/\ last.op = "call_function"
     /\ last.mod.cls = "Sequential"
     /\ (last.kwargs # <<>> \/ Len(last.args) # 1))
    => last.res = Raise(IF last.kwargs # <<>> THEN "AssertionError" ELSE "ValueError")

\* A Sequential of an allowed class called with one positional and one
\* keyword argument.
C7_Witness ==
    /\ last.op = "call_function"
    /\ last.mod.cls = "Sequential"
    /\ last.mod.allowed
    /\ Len(last.mod.elems) = 2
    /\ Len(last.args) = 1
    /\ Len(last.kwargs) = 1
    /\ last.res.outcome = "AssertionError"

\* C8: for a name that is not in the instance's own data, the unspecialized
\* call_method ends in one of three ways: the parameters path (the guard on
\* the parameter names and one value per parameter), the "missing" failure
\* for another function of torch.nn.Module, or delegation to the generic
\* method dispatch, which also takes the names the static lookup does not
\* find and the attributes that are not plain functions.
C8_UnspecializedMethodOutcomes ==
    (last.op = "unspec_call_method" /\ ~last.view.in_dict)
    => LET r == last.res
           m == last.view.method
       IN \/ /\ m = "parameters"
             /\ r.outcome = "return"
             /\ r.value = "listiter"
             /\ Len(r.items) = Len(last.view.named)
             /\ r.newguards = << Guard(handle.source, "NN_MODULE_PARAM_NAMES") >>
          \/ /\ m = "module_builtin"
             /\ r.outcome = "unimplemented_missing"
          \/ /\ m \in {"missing", "no_code", "function"}
             /\ r = Return("super_call_method")

\* C9: every child handle made for the element at position or key idx of
\* the handle's container is registered under (module_key, idx) with the
\* provenance indexed(parent provenance, idx), whether it is made by
\* unpack_var_sequence, the unrolled call, __getitem__(idx) or
\* __getitem__(slice).
C9_ElementKeyAndProvenance ==
    (\/ last.op \in {"unpack_var_sequence", "call_function"}
     \/ last.op = "call_method" /\ last.name = "__getitem__")
    => \A k \in 1..Len(last.res.registered) :
          LET r == last.res.registered[k]
          IN /\ r.source = NNModuleSource(GetItemSource(handle.source, ItemKey(r)))
             /\ r.key = Append(handle.key, ItemKey(r))

\* The rewriting C10 describes: every all-digit segment that follows a dot
\* becomes an index, the dot that ends it starting the next segment.
RECURSIVE IndexedFrom(_, _)
IndexedFrom(s, i) ==
    IF i > Len(s) THEN <<>>
    ELSE LET d == IF s[i] = "." THEN DigitRun(s, i + 1) ELSE 0
             e == i + d + 1
             whole == d > 0 /\ (e > Len(s) \/ s[e] = ".")
         IN IF whole
            THEN <<"[">> \o SubSeq(s, i + 1, i + d) \o <<"]">> \o IndexedFrom(s, e)
            ELSE <<s[i]>> \o IndexedFrom(s, i + 1)

\* C10: children() and parameters() register each item under its name with
\* every all-digit segment rewritten to indexed syntax (a.0.1.b becomes
\* a[0][1].b), in the registry key and in the provenance.
C10_NumericSegmentsBecomeIndices ==
    (/\ last.op = "call_method"
     /\ last.name \in {"children", "parameters"}
     /\ last.res.outcome = "return")
    => LET items == IF last.name = "children" THEN last.mod.elems ELSE last.mod.named
       IN /\ Len(last.res.registered) = Len(items)
          /\ \A k \in 1..Len(items) :
                LET name == IndexedFrom(items[k].name, 1)
                    r == last.res.registered[k]
                IN /\ r.key = Append(handle.key, StrAtom(name))
                   /\ r.source = NNModuleSource(AttrSource(handle.source, name))

====
